---- MODULE Spec2Model ----
(***************************************************************************)
(* LFUCache of src/LFUCache.cpp as a state machine.                        *)
(*                                                                         *)
(* A Node* is identified with the key it carries: a node is reachable only *)
(* through nodeMap[key] and through the one List it is linked in, and      *)
(* nodeMap[key]->key == key for every stored node.  The heap content of    *)
(* the nodes (key, val, count) is the record nodeMap[key].  A List with    *)
(* its head/tail sentinels and prev/next links is the sequence of the      *)
(* nodes between the sentinels, head side first, plus its size field.      *)
(***************************************************************************)
EXTENDS Integers, Sequences, FiniteSets

\* ---- bounds of the model ------------------------------------------------
MaxKey == 3          \* keys are 1..MaxKey
MaxCap == 2          \* capacities handed to the constructor are 0..MaxCap
MaxFreq == 4         \* a node is not accessed beyond this count
MaxAlloc == 4        \* put constructs no more than this many nodes
MaxFloor == 3        \* addStop is called with the floors 0..MaxFloor
MaxStops == 3        \* addStop is called no more than this many times
MaxBalance == 3      \* no deposit takes a balance above this

Keys == 1..MaxKey
Values == {-1, 7}
Capacities == 0..MaxCap

VARIABLES
    maxSize,     \* LFUCache::maxSize
    curSize,     \* LFUCache::curSize
    minf,        \* LFUCache::minf
    nodeMap,     \* LFUCache::nodeMap, key -> node (key, val, count)
    listMap,     \* LFUCache::listMap, count -> List (nodes, size)
    crashed,     \* the process dereferenced a null pointer
    ret,         \* what the last call returned: <<v>> for get, <<>> for put
    last,        \* the last call: operation, arguments, what it found and evicted
    recency,     \* stored keys, most recently accessed first
    lastPut,     \* key put and not evicted since -> value of its latest put
    accesses,    \* stored key -> its accesses (inserting put, get hits, put-updates)
    ref,         \* the reference cache: entries by last access, and its last result
    allocated,   \* Node objects made by put for entries and never deleted
    veterans,    \* keys evicted with a count above 1, and whether the last put brought one back
    callers,     \* caller -> the frame of its call in progress
    mem,         \* the LFUCache object and its heap, as the statements of callers see it
    mutex,       \* the caller that holds the lock of the cache, or Free
    calls,       \* caller -> the calls it has started
    overlapped,  \* a call has started while another was in progress
    lru,         \* the LRUCache object: capacity, currentSize, list of nodes, mpp
    lruLog,      \* the last call on the LRUCache, and its keys by last get hit or put
    elevator,    \* the Elevator object: currentFloor, direction, upStops, downStops
    trips,       \* the calls of addStop so far, and the floors at which a stop was erased
    atm,         \* the ATM object: currentState, currentCard
    bank,        \* the Bank: card number -> balance of its account
    atmLog       \* the last call on the ATM: what was called, from which state, what was executed

cache == <<maxSize, curSize, minf, nodeMap, listMap, crashed>>
vars == <<maxSize, curSize, minf, nodeMap, listMap, crashed, ret, last, recency, lastPut,
          accesses, ref, allocated, veterans, callers, mem, mutex, calls, overlapped,
          lru, lruLog, elevator, trips, atm, bank, atmLog>>

\* what the calls of a single client, taken whole, leave alone
concurrent == <<callers, mem, mutex, calls, overlapped>>
companions == <<lru, lruLog, elevator, trips, atm, bank, atmLog>>
aside == <<allocated, veterans, concurrent, companions>>

\* ---- sequences and maps ---------------------------------------------------
Remove(s, k) == SelectSeq(s, LAMBDA x : x # k)

SeqToSet(s) == {s[i] : i \in 1..Len(s)}

IndexOf(s, k) == CHOOSE i \in 1..Len(s) : s[i] = k

\* m with key k bound to v (k added when absent)
MapPut(m, k, v) == [x \in DOMAIN m \cup {k} |-> IF x = k THEN v ELSE m[x]]

\* m without key k
MapErase(m, k) == [x \in DOMAIN m \ {k} |-> m[x]]

\* unordered_map::find(k) != end()
contains(m, k) == k \in DOMAIN m


Node_countZero(key, val) == [key |-> key, val |-> val, count |-> 0]

\* ---- struct Node ----------------------------------------------------------
Node(key, val) == [key |-> key, val |-> val, count |-> 1]

\* ---- struct List ----------------------------------------------------------
\* the key of the head and tail nodes of a List
SentinelKey == -1

NewList == [nodes |-> <<>>, size |-> 0]

addNode_atTail(list, k) == [nodes |-> Append(list.nodes, k), size |-> list.size + 1]

\* link the node right after the head sentinel
addNode(list, k) == [nodes |-> <<k>> \o list.nodes, size |-> list.size + 1]

delNode_head(list, k) == [nodes |-> Tail(list.nodes), size |-> list.size - 1]

\* unlink the node from its neighbours
delNode(list, k) == [nodes |-> Remove(list.nodes, k), size |-> list.size - 1]

\* ---- LFUCache::updateFreqList ---------------------------------------------
minfAfterUnlink_anySize(count, list, mf) == IF count = mf THEN mf + 1 ELSE mf


minfAfterUnlink_sizeOnly(count, list, mf) == IF list.size = 0 THEN mf + 1 ELSE mf

minfAfterUnlink_never(count, list, mf) == mf

\* if(node->count == minf && list->size == 0) minf++
minfAfterUnlink(count, list, mf) ==
    IF count = mf /\ list.size = 0 THEN mf + 1 ELSE mf

incCount_not(node) == node


incCount_twice(node) == [node EXCEPT !.count = @ + 2]

\* (node->count)++
incCount(node) == [node EXCEPT !.count = @ + 1]

updateFreqList_dropsNode(nm, lm, mf, k) ==
    LET c == nm[k].count
        list == delNode(lm[c], k)
    IN [nodeMap |-> MapErase(nm, k),
        listMap |-> [lm EXCEPT ![c] = list],
        minf |-> minfAfterUnlink(c, list, mf)]


updateFreqList_noUnlink(nm, lm, mf, k) ==
    LET c == nm[k].count
        higherList == IF contains(lm, c + 1) THEN lm[c + 1] ELSE NewList
        node == incCount(nm[k])
    IN [nodeMap |-> [nm EXCEPT ![k] = node],
        listMap |-> MapPut(lm, node.count, addNode(higherList, k)),
        minf |-> minfAfterUnlink(c, lm[c], mf)]

\* the node of key k leaves the list of its count and enters, at the head
\* side, the list of count + 1, which is created when listMap has none
updateFreqList(nm, lm, mf, k) ==
    LET c == nm[k].count
        list == delNode(lm[c], k)
        lm1 == [lm EXCEPT ![c] = list]
        newList == ~contains(lm1, c + 1)
        higherList == IF newList THEN NewList ELSE lm1[c + 1]
        node == incCount(nm[k])
    IN [nodeMap |-> [nm EXCEPT ![k] = node],
        listMap |-> MapPut(lm1, node.count, addNode(higherList, k)),
        minf |-> minfAfterUnlink(c, list, mf)]

\* ---- LFUCache::LFUCache ---------------------------------------------------
LFUCache(capacity) ==
    /\ maxSize = capacity
    /\ curSize = 0
    /\ minf = 0
    /\ nodeMap = << >>
    /\ listMap = << >>
    /\ crashed = FALSE

\* ---- LFUCache::get --------------------------------------------------------
get_missCounts(key) ==
    IF contains(nodeMap, key)
    THEN LET u == updateFreqList(nodeMap, listMap, minf, key)
         IN /\ ret' = <<nodeMap[key].val>>
            /\ nodeMap' = u.nodeMap
            /\ listMap' = u.listMap
            /\ minf' = u.minf
            /\ UNCHANGED <<maxSize, curSize, crashed>>
    ELSE /\ ret' = <<-1>>
         /\ curSize' = curSize + 1
         /\ UNCHANGED <<maxSize, minf, nodeMap, listMap, crashed>>


get_noPromote(key) ==
    IF contains(nodeMap, key)
    THEN /\ ret' = <<nodeMap[key].val>>
         /\ UNCHANGED cache
    ELSE /\ ret' = <<-1>>
         /\ UNCHANGED cache

get(key) ==
    IF contains(nodeMap, key)
    THEN LET u == updateFreqList(nodeMap, listMap, minf, key)
         IN /\ ret' = <<nodeMap[key].val>>
            /\ nodeMap' = u.nodeMap
            /\ listMap' = u.listMap
            /\ minf' = u.minf
            /\ UNCHANGED <<maxSize, curSize, crashed>>
    ELSE /\ ret' = <<-1>>
         /\ UNCHANGED cache

\* ---- LFUCache::put --------------------------------------------------------
zeroCapacity_never(ms) == ms < 0

\* if(maxSize == 0) return
zeroCapacity(ms) == ms = 0

setVal_not(node, value) == node

\* node->val = value
setVal(node, value) == [node EXCEPT !.val = value]

isFull_never(cs, ms) == cs > ms

\* if(curSize == maxSize)
isFull(cs, ms) == cs = ms

\* listMap[minf] is a null List* that operator[] has just inserted, or the
\* list is empty, so that tail->prev is the head sentinel, whose prev is NULL:
\* put then erases the key of the sentinel from nodeMap before delNode fails
evictCrashes(lm, mf) == ~contains(lm, mf) \/ lm[mf].nodes = << >>


toBeDeleted_first(delList) == delList.nodes[1]

\* delList->tail->prev
toBeDeleted(delList) == delList.nodes[Len(delList.nodes)]

evict_keepsKey(nm, lm, cs, mf) ==
    LET delList == lm[mf]
        victim == toBeDeleted(delList)
    IN [nodeMap |-> nm,
        listMap |-> [lm EXCEPT ![mf] = delNode(delList, victim)],
        curSize |-> cs - 1]


evict_keepsSize(nm, lm, cs, mf) ==
    LET delList == lm[mf]
        victim == toBeDeleted(delList)
    IN [nodeMap |-> MapErase(nm, nm[victim].key),
        listMap |-> [lm EXCEPT ![mf] = delNode(delList, victim)],
        curSize |-> cs]


evict_decrementsTwice(nm, lm, cs, mf) ==
    LET delList == lm[mf]
        victim == toBeDeleted(delList)
    IN [nodeMap |-> MapErase(nm, nm[victim].key),
        listMap |-> [lm EXCEPT ![mf] = delNode(delList, victim)],
        curSize |-> cs - 2]

\* the eviction branch of put
evict(nm, lm, cs, mf) ==
    LET delList == lm[mf]
        victim == toBeDeleted(delList)
    IN [nodeMap |-> MapErase(nm, nm[victim].key),
        listMap |-> [lm EXCEPT ![mf] = delNode(delList, victim)],
        curSize |-> cs - 1]

resetMinf_keep(mf) == IF mf = 0 THEN 1 ELSE mf

\* minf = 1
resetMinf(mf) == 1


put_noReturn(key, value) ==
    IF zeroCapacity(maxSize)
    THEN UNCHANGED cache
    ELSE LET u == IF contains(nodeMap, key)
                  THEN updateFreqList([nodeMap EXCEPT ![key] = setVal(@, value)],
                                      listMap, minf, key)
                  ELSE [nodeMap |-> nodeMap, listMap |-> listMap, minf |-> minf]
         IN IF isFull(curSize, maxSize) /\ evictCrashes(u.listMap, u.minf)
            THEN /\ crashed' = TRUE
                 /\ UNCHANGED <<maxSize, curSize, minf, nodeMap, listMap>>
            ELSE LET e == IF isFull(curSize, maxSize)
                          THEN evict(u.nodeMap, u.listMap, curSize, u.minf)
                          ELSE [nodeMap |-> u.nodeMap, listMap |-> u.listMap,
                                curSize |-> curSize]
                     mf1 == resetMinf(u.minf)
                     minList == IF contains(e.listMap, mf1) THEN e.listMap[mf1] ELSE NewList
                 IN /\ minf' = mf1
                    /\ listMap' = MapPut(e.listMap, mf1, addNode(minList, key))
                    /\ curSize' = e.curSize + 1
                    /\ nodeMap' = MapPut(e.nodeMap, key, Node(key, value))
                    /\ UNCHANGED <<maxSize, crashed>>


put_evictAfterInsert(key, value) ==
    IF zeroCapacity(maxSize)
    THEN UNCHANGED cache
    ELSE IF contains(nodeMap, key)
    THEN LET nm == [nodeMap EXCEPT ![key] = setVal(@, value)]
             u == updateFreqList(nm, listMap, minf, key)
         IN /\ nodeMap' = u.nodeMap
            /\ listMap' = u.listMap
            /\ minf' = u.minf
            /\ UNCHANGED <<maxSize, curSize, crashed>>
    ELSE LET mf1 == resetMinf(minf)
             minList == IF contains(listMap, mf1) THEN listMap[mf1] ELSE NewList
             lm1 == MapPut(listMap, mf1, addNode(minList, key))
             nm1 == MapPut(nodeMap, key, Node(key, value))
             e == IF curSize + 1 > maxSize
                  THEN evict(nm1, lm1, curSize + 1, mf1)
                  ELSE [nodeMap |-> nm1, listMap |-> lm1, curSize |-> curSize + 1]
         IN /\ minf' = mf1
            /\ listMap' = e.listMap
            /\ curSize' = e.curSize
            /\ nodeMap' = e.nodeMap
            /\ UNCHANGED <<maxSize, crashed>>

put(key, value) ==
    IF zeroCapacity(maxSize)
    THEN UNCHANGED cache
    ELSE IF contains(nodeMap, key)
    THEN LET nm == [nodeMap EXCEPT ![key] = setVal(@, value)]
             u == updateFreqList(nm, listMap, minf, key)
         IN /\ nodeMap' = u.nodeMap
            /\ listMap' = u.listMap
            /\ minf' = u.minf
            /\ UNCHANGED <<maxSize, curSize, crashed>>
    ELSE IF isFull(curSize, maxSize) /\ evictCrashes(listMap, minf)
    THEN /\ crashed' = TRUE
         /\ nodeMap' = IF contains(listMap, minf)
                       THEN MapErase(nodeMap, SentinelKey)
                       ELSE nodeMap
         /\ UNCHANGED <<maxSize, curSize, minf, listMap>>
    ELSE LET e == IF isFull(curSize, maxSize)
                  THEN evict(nodeMap, listMap, curSize, minf)
                  ELSE [nodeMap |-> nodeMap, listMap |-> listMap, curSize |-> curSize]
             mf1 == resetMinf(minf)
             minList == IF contains(e.listMap, mf1) THEN e.listMap[mf1] ELSE NewList
         IN /\ minf' = mf1
            /\ listMap' = MapPut(e.listMap, mf1, addNode(minList, key))
            /\ curSize' = e.curSize + 1
            /\ nodeMap' = MapPut(e.nodeMap, key, Node(key, value))
            /\ UNCHANGED <<maxSize, crashed>>

\* ---- the calls of a client ------------------------------------------------
\* the stored keys in the order of their last access (inserting put, get
\* hit, put-update), kept apart from the lists of listMap
Touch(order, key, stored) ==
    IF key \in stored
    THEN <<key>> \o SelectSeq(order, LAMBDA x : x # key /\ x \in stored)
    ELSE SelectSeq(order, LAMBDA x : x \in stored)


\* the accesses of the stored keys after a call on key: one more for key, 1
\* when the call has created its entry, none for a key no longer stored
Count(acc, key, stored) ==
    [k \in stored |->
        IF k = key
        THEN (IF k \in DOMAIN acc THEN acc[k] + 1 ELSE 1)
        ELSE (IF k \in DOMAIN acc THEN acc[k] ELSE 0)]

\* a call whose node would pass MaxFreq is left out
Promotable(key) == contains(nodeMap, key) => nodeMap[key].count < MaxFreq

\* ---- the reference cache --------------------------------------------------
\* per key its value and its number of accesses; the entries stand in the
\* order of their last access, the latest first
NewRef(capacity) == [cap |-> capacity, entries |-> << >>, ret |-> << >>]

RefHas(r, key) == \E i \in 1..Len(r.entries) : r.entries[i].key = key

RefAt(r, key) == CHOOSE i \in 1..Len(r.entries) : r.entries[i].key = key

Without(s, i) == [j \in 1..(Len(s) - 1) |-> IF j < i THEN s[j] ELSE s[j + 1]]

\* the entry to evict: least number of accesses, and among those the one
\* whose last access is the oldest
RefVictim(r) ==
    CHOOSE i \in 1..Len(r.entries) :
        \A j \in 1..Len(r.entries) :
            \/ r.entries[i].cnt < r.entries[j].cnt
            \/ (r.entries[i].cnt = r.entries[j].cnt /\ j <= i)

RefTouch(r, key, val) ==
    LET i == RefAt(r, key)
    IN <<[key |-> key, val |-> val, cnt |-> r.entries[i].cnt + 1]>> \o Without(r.entries, i)

RefGet(r, key) ==
    IF RefHas(r, key)
    THEN LET v == r.entries[RefAt(r, key)].val
         IN [r EXCEPT !.entries = RefTouch(r, key, v), !.ret = <<v>>]
    ELSE [r EXCEPT !.ret = <<-1>>]

RefPut(r, key, value) ==
    IF RefHas(r, key)
    THEN [r EXCEPT !.entries = RefTouch(r, key, value), !.ret = << >>]
    ELSE IF r.cap = 0
    THEN [r EXCEPT !.ret = << >>]
    ELSE LET kept == IF Len(r.entries) = r.cap
                     THEN Without(r.entries, RefVictim(r))
                     ELSE r.entries
         IN [r EXCEPT !.entries = <<[key |-> key, val |-> value, cnt |-> 1]>> \o kept,
                      !.ret = << >>]

\* ---- get and put one statement at a time ------------------------------------
\* The object with its heap: a Node* is the index of the node in nodes, a
\* List* the index of the list in lists, and the null pointer is 0.  Nothing
\* is ever deleted, so every pointer other than null is valid.
NULL == 0

Callers == {1, 2}

\* the mutex of the cache when no caller holds it
Free == 0

MaxCalls == 4        \* callers that lock make no more calls than this in all
MaxRacingCalls == 2  \* callers that do not lock make no more calls than this in all

\* what callers that lock, and a caller that is alone, pass to get and put
LockedKeys == {1, 2, 3}
LockedValues == {7}

\* what callers that do not lock pass to get and put
RacingKeys == {1, 2}
RacingValues == {7}

Mem(capacity) ==
    [maxSize |-> capacity, curSize |-> 0, minf |-> 0,
     nodeMap |-> << >>, listMap |-> << >>,
     nodes |-> << >>, lists |-> << >>, crashed |-> FALSE]

HeapNode_countZero(key, val) ==
    [key |-> key, val |-> val, count |-> 0, next |-> NULL, prev |-> NULL]

\* struct Node with its links
HeapNode(key, val) ==
    [key |-> key, val |-> val, count |-> 1, next |-> NULL, prev |-> NULL]

\* new List(): two sentinels linked to each other, size 0
newList(m) ==
    LET h == Len(m.nodes) + 1
        t == Len(m.nodes) + 2
    IN [m EXCEPT !.nodes = @ \o << [HeapNode(SentinelKey, SentinelKey) EXCEPT !.next = t],
                                   [HeapNode(SentinelKey, SentinelKey) EXCEPT !.prev = h] >>,
                 !.lists = Append(@, [head |-> h, tail |-> t, size |-> 0])]

\* unordered_map::operator[]: a key that is absent is inserted with a null
\* pointer
subscript(map, k) == IF contains(map, k) THEN map ELSE MapPut(map, k, NULL)

\* the locals of a call, of the updateFreqList it is in and of the addNode or
\* delNode it is in; pc is the line that is executed next
Frame ==
    [pc |-> "idle", op |-> "none", key |-> 0, value |-> 0,
     ret |-> << >>, expect |-> << >>, steps |-> 0,
     resnode |-> NULL, res |-> 0,
     delList |-> NULL, toBeDeleted |-> NULL, toBeAdded |-> NULL, minList |-> NULL,
     node |-> NULL, list |-> NULL, higherList |-> NULL, newList |-> FALSE, uback |-> "idle",
     self |-> NULL, add |-> NULL, del |-> NULL,
     headRight |-> NULL, left |-> NULL, right |-> NULL, back |-> "idle"]

Then(f, m) == [f |-> f, m |-> m]

\* a null pointer is dereferenced
Crash(f, m) == [f |-> f, m |-> [m EXCEPT !.crashed = TRUE]]

\* LFUCache::get, lines 84-90
execGet(f, m) ==
    CASE f.pc = "get84" ->
            Then([f EXCEPT !.pc = IF contains(m.nodeMap, f.key) THEN "get85" ELSE "get90"], m)
      [] f.pc = "get85" ->
            LET nm == subscript(m.nodeMap, f.key)
            IN Then([f EXCEPT !.resnode = nm[f.key], !.pc = "get86"],
                    [m EXCEPT !.nodeMap = nm])
      [] f.pc = "get86" ->
            IF f.resnode = NULL THEN Crash(f, m)
            ELSE Then([f EXCEPT !.res = m.nodes[f.resnode].val, !.pc = "get87"], m)
      [] f.pc = "get87" ->
            Then([f EXCEPT !.node = f.resnode, !.uback = "get88", !.pc = "upd58"], m)
      [] f.pc = "get88" ->
            Then([f EXCEPT !.ret = <<f.res>>, !.pc = "done"], m)
      [] f.pc = "get90" ->
            Then([f EXCEPT !.ret = <<-1>>, !.pc = "done"], m)

tailPrev_headNext(m, l) == m.nodes[m.lists[l].head].next

\* list->tail->prev
tailPrev(m, l) == m.nodes[m.lists[l].tail].prev

\* a search for the node before the tail from the head, one node a step
put105_scan(f, m) ==
    IF f.delList = NULL THEN Crash(f, m)
    ELSE LET at == IF f.toBeDeleted = NULL
                   THEN m.lists[f.delList].head
                   ELSE f.toBeDeleted
             next == m.nodes[at].next
         IN IF next = m.lists[f.delList].tail \/ next = NULL
            THEN Then([f EXCEPT !.toBeDeleted = at, !.pc = "put106"], m)
            ELSE Then([f EXCEPT !.toBeDeleted = next], m)

\* Node* toBeDeleted = delList->tail->prev
put105(f, m) ==
    IF f.delList = NULL THEN Crash(f, m)
    ELSE Then([f EXCEPT !.toBeDeleted = tailPrev(m, f.delList), !.pc = "put106"], m)

\* LFUCache::put, lines 94-122
execPut(f, m) ==
    CASE f.pc = "put94" ->
            Then([f EXCEPT !.pc = IF zeroCapacity(m.maxSize) THEN "done" ELSE "put96"], m)
      [] f.pc = "put96" ->
            Then([f EXCEPT !.pc = IF contains(m.nodeMap, f.key) THEN "put97" ELSE "put103"], m)
      [] f.pc = "put97" ->
            LET nm == subscript(m.nodeMap, f.key)
            IN Then([f EXCEPT !.node = nm[f.key], !.pc = "put98"],
                    [m EXCEPT !.nodeMap = nm])
      [] f.pc = "put98" ->
            IF f.node = NULL THEN Crash(f, m)
            ELSE Then([f EXCEPT !.pc = "put99"],
                      [m EXCEPT !.nodes[f.node] = setVal(@, f.value)])
      [] f.pc = "put99" ->
            Then([f EXCEPT !.uback = "put100", !.pc = "upd58"], m)
      [] f.pc = "put100" ->
            Then([f EXCEPT !.pc = "done"], m)
      [] f.pc = "put103" ->
            Then([f EXCEPT !.pc = IF isFull(m.curSize, m.maxSize) THEN "put104" ELSE "put111"], m)
      [] f.pc = "put104" ->
            LET lm == subscript(m.listMap, m.minf)
            IN Then([f EXCEPT !.delList = lm[m.minf], !.pc = "put105"],
                    [m EXCEPT !.listMap = lm])
      [] f.pc = "put105" -> put105(f, m)
      [] f.pc = "put106" ->
            IF f.toBeDeleted = NULL THEN Crash(f, m)
            ELSE Then([f EXCEPT !.pc = "put107"],
                      [m EXCEPT !.nodeMap = MapErase(@, m.nodes[f.toBeDeleted].key)])
      [] f.pc = "put107" ->
            IF f.delList = NULL THEN Crash(f, m)
            ELSE Then([f EXCEPT !.self = f.delList, !.del = tailPrev(m, f.delList),
                                !.back = "put108", !.pc = "del40"], m)
      [] f.pc = "put108" ->
            Then([f EXCEPT !.pc = "put111"], [m EXCEPT !.curSize = @ - 1])
      [] f.pc = "put111" ->
            Then([f EXCEPT !.pc = "put112"], [m EXCEPT !.minf = 1])
      [] f.pc = "put112" ->
            Then([f EXCEPT !.toBeAdded = Len(m.nodes) + 1, !.pc = "put114"],
                 [m EXCEPT !.nodes = Append(@, HeapNode(f.key, f.value))])
      [] f.pc = "put114" ->
            Then([f EXCEPT !.pc = IF contains(m.listMap, m.minf) THEN "put115" ELSE "put117"], m)
      [] f.pc = "put115" ->
            LET lm == subscript(m.listMap, m.minf)
            IN Then([f EXCEPT !.minList = lm[m.minf], !.pc = "put119"],
                    [m EXCEPT !.listMap = lm])
      [] f.pc = "put117" ->
            Then([f EXCEPT !.minList = Len(m.lists) + 1, !.pc = "put119"], newList(m))
      [] f.pc = "put119" ->
            Then([f EXCEPT !.self = f.minList, !.add = f.toBeAdded,
                           !.back = "put120", !.pc = "add31"], m)
      [] f.pc = "put120" ->
            Then([f EXCEPT !.pc = "put121"], [m EXCEPT !.curSize = @ + 1])
      [] f.pc = "put121" ->
            Then([f EXCEPT !.pc = "put122"],
                 [m EXCEPT !.nodeMap = MapPut(@, f.key, f.toBeAdded)])
      [] f.pc = "put122" ->
            Then([f EXCEPT !.pc = "done"],
                 [m EXCEPT !.listMap = MapPut(@, m.minf, f.minList)])

emptiedMin_anySize(count, size, mf) == count = mf

\* node->count == minf && list->size == 0
emptiedMin(count, size, mf) == count = mf /\ size = 0

\* LFUCache::updateFreqList, lines 58-73
execUpdate(f, m) ==
    CASE f.pc = "upd58" ->
            IF f.node = NULL THEN Crash(f, m)
            ELSE LET lm == subscript(m.listMap, m.nodes[f.node].count)
                 IN Then([f EXCEPT !.list = lm[m.nodes[f.node].count], !.pc = "upd59"],
                         [m EXCEPT !.listMap = lm])
      [] f.pc = "upd59" ->
            Then([f EXCEPT !.self = f.list, !.del = f.node,
                           !.back = "upd60", !.pc = "del40"], m)
      [] f.pc = "upd60" ->
            IF f.node = NULL \/ f.list = NULL THEN Crash(f, m)
            ELSE Then([f EXCEPT !.pc = IF emptiedMin(m.nodes[f.node].count,
                                                     m.lists[f.list].size, m.minf)
                                       THEN "upd61" ELSE "upd65"], m)
      [] f.pc = "upd61" ->
            Then([f EXCEPT !.pc = "upd65"], [m EXCEPT !.minf = @ + 1])
      [] f.pc = "upd65" ->
            Then([f EXCEPT !.pc = IF contains(m.listMap, m.nodes[f.node].count + 1)
                                  THEN "upd66" ELSE "upd68"], m)
      [] f.pc = "upd66" ->
            LET lm == subscript(m.listMap, m.nodes[f.node].count + 1)
            IN Then([f EXCEPT !.higherList = lm[m.nodes[f.node].count + 1], !.pc = "upd71"],
                    [m EXCEPT !.listMap = lm])
      [] f.pc = "upd68" ->
            Then([f EXCEPT !.newList = TRUE, !.pc = "upd69"], m)
      [] f.pc = "upd69" ->
            Then([f EXCEPT !.higherList = Len(m.lists) + 1, !.pc = "upd71"], newList(m))
      [] f.pc = "upd71" ->
            Then([f EXCEPT !.pc = "upd72"], [m EXCEPT !.nodes[f.node] = incCount(@)])
      [] f.pc = "upd72" ->
            Then([f EXCEPT !.self = f.higherList, !.add = f.node,
                           !.back = "upd73", !.pc = "add31"], m)
      [] f.pc = "upd73" ->
            Then([f EXCEPT !.pc = f.uback],
                 IF f.newList
                 THEN [m EXCEPT !.listMap = MapPut(@, m.nodes[f.node].count, f.higherList)]
                 ELSE m)

\* List::addNode, lines 31-36
execAdd(f, m) ==
    CASE f.pc = "add31" ->
            IF f.self = NULL THEN Crash(f, m)
            ELSE Then([f EXCEPT !.headRight = m.nodes[m.lists[f.self].head].next,
                                !.pc = "add32"], m)
      [] f.pc = "add32" ->
            IF f.add = NULL THEN Crash(f, m)
            ELSE Then([f EXCEPT !.pc = "add33"],
                      [m EXCEPT !.nodes[f.add].prev = m.lists[f.self].head])
      [] f.pc = "add33" ->
            Then([f EXCEPT !.pc = "add34"], [m EXCEPT !.nodes[f.add].next = f.headRight])
      [] f.pc = "add34" ->
            Then([f EXCEPT !.pc = "add35"],
                 [m EXCEPT !.nodes[m.lists[f.self].head].next = f.add])
      [] f.pc = "add35" ->
            IF f.headRight = NULL THEN Crash(f, m)
            ELSE Then([f EXCEPT !.pc = "add36"], [m EXCEPT !.nodes[f.headRight].prev = f.add])
      [] f.pc = "add36" ->
            Then([f EXCEPT !.pc = f.back], [m EXCEPT !.lists[f.self].size = @ + 1])

\* List::delNode, lines 40-44
execDel(f, m) ==
    CASE f.pc = "del40" ->
            IF f.del = NULL THEN Crash(f, m)
            ELSE Then([f EXCEPT !.left = m.nodes[f.del].prev, !.pc = "del41"], m)
      [] f.pc = "del41" ->
            Then([f EXCEPT !.right = m.nodes[f.del].next, !.pc = "del42"], m)
      [] f.pc = "del42" ->
            IF f.left = NULL THEN Crash(f, m)
            ELSE Then([f EXCEPT !.pc = "del43"], [m EXCEPT !.nodes[f.left].next = f.right])
      [] f.pc = "del43" ->
            IF f.right = NULL THEN Crash(f, m)
            ELSE Then([f EXCEPT !.pc = "del44"], [m EXCEPT !.nodes[f.right].prev = f.left])
      [] f.pc = "del44" ->
            IF f.self = NULL THEN Crash(f, m)
            ELSE Then([f EXCEPT !.pc = f.back], [m EXCEPT !.lists[f.self].size = @ - 1])

GetLines == {"get84", "get85", "get86", "get87", "get88", "get90"}
UpdateLines == {"upd58", "upd59", "upd60", "upd61", "upd65", "upd66", "upd68", "upd69",
                "upd71", "upd72", "upd73"}
AddLines == {"add31", "add32", "add33", "add34", "add35", "add36"}
DelLines == {"del40", "del41", "del42", "del43", "del44"}

\* the statement at f.pc
exec(f, m) ==
    IF f.pc \in GetLines THEN execGet(f, m)
    ELSE IF f.pc \in UpdateLines THEN execUpdate(f, m)
    ELSE IF f.pc \in AddLines THEN execAdd(f, m)
    ELSE IF f.pc \in DelLines THEN execDel(f, m)
    ELSE execPut(f, m)

\* the call that a caller starts
Begin(op, key, value) ==
    [Frame EXCEPT !.pc = IF op = "get" THEN "get84" ELSE "put94",
                  !.op = op, !.key = key, !.value = value]

InCall(f) == f.pc \notin {"idle", "done"}

\* ---- class Elevator (src/elevatorSystem.cpp) --------------------------------
Floors == 0..MaxFloor

\* Elevator::Elevator
Elevator == [currentFloor |-> 0, direction |-> "IDLE", upStops |-> {}, downStops |-> {}]

\* the branch of move for direction UP
moveUp(e) ==
    IF e.upStops = {} THEN e
    ELSE LET ups == e.upStops \ {e.currentFloor}
         IN IF ups # {}
            THEN [e EXCEPT !.upStops = ups, !.currentFloor = @ + 1]
            ELSE [e EXCEPT !.upStops = ups,
                           !.direction = IF e.downStops = {} THEN "IDLE" ELSE "DOWN"]

\* the branch of move for direction DOWN
moveDown(e) ==
    IF e.downStops = {} THEN e
    ELSE LET downs == e.downStops \ {e.currentFloor}
         IN IF downs # {}
            THEN [e EXCEPT !.downStops = downs, !.currentFloor = @ - 1]
            ELSE [e EXCEPT !.downStops = downs,
                           !.direction = IF e.upStops = {} THEN "IDLE" ELSE "UP"]

\* Elevator::move
move(e) ==
    LET started == IF e.direction # "IDLE" THEN e
                   ELSE IF e.upStops # {} THEN [e EXCEPT !.direction = "UP"]
                   ELSE IF e.downStops # {} THEN [e EXCEPT !.direction = "DOWN"]
                   ELSE e
    IN IF started.direction = "UP" THEN moveUp(started)
       ELSE IF started.direction = "DOWN" THEN moveDown(started)
       ELSE e

addStop_alwaysUp(e, floor) ==
    IF e.currentFloor # floor THEN [e EXCEPT !.upStops = @ \cup {floor}] ELSE e

\* Elevator::addStop
addStop(e, floor) ==
    IF e.currentFloor < floor THEN [e EXCEPT !.upStops = @ \cup {floor}]
    ELSE IF e.currentFloor > floor THEN [e EXCEPT !.downStops = @ \cup {floor}]
    ELSE e

Stops(e) == e.upStops \cup e.downStops

\* ---- class ATM and class Bank (src/ATM.cpp) ----------------------------------
\* A Card* is identified with the number of the card; the null pointer is
\* NoCard.  The bank knows the cards 1 and 2 and their PINs; card 3 is a card
\* of another bank.
NoCard == 0
Cards == {1, 2, 3}
Registered == {1, 2}
Pins == {11, 22, 99}

\* Bank::cardPinMap after the accounts were added
cardPinMap == [c \in Registered |-> IF c = 1 THEN 11 ELSE 22]

\* Bank::authenticateUser
authenticateUser(cardNumber, pin) ==
    cardNumber \in DOMAIN cardPinMap /\ cardPinMap[cardNumber] = pin

\* ATM::ATM
ATM == [currentState |-> "IDLE", currentCard |-> NoCard]

insertCard_always(a, card) ==
    [currentState |-> "CARD_INSERTED", currentCard |-> card]

\* ATM::insertCard
insertCard(a, card) ==
    IF a.currentState = "IDLE"
    THEN [currentState |-> "CARD_INSERTED", currentCard |-> card]
    ELSE a

enterPin_anyPin(a, pin) ==
    IF a.currentState = "CARD_INSERTED" /\ a.currentCard # NoCard
    THEN [a EXCEPT !.currentState = "AUTHENTICATED"]
    ELSE a

\* ATM::enterPin
enterPin(a, pin) ==
    IF a.currentState = "CARD_INSERTED" /\ a.currentCard # NoCard
    THEN IF authenticateUser(a.currentCard, pin)
         THEN [a EXCEPT !.currentState = "AUTHENTICATED"]
         ELSE a
    ELSE a

\* ATM::ejectCard
ejectCard(a) == [currentState |-> "IDLE", currentCard |-> NoCard]

\* BankAccount::withdraw
withdraw(balance, amount) ==
    IF amount > 0 /\ balance >= amount THEN balance - amount ELSE balance

\* BankAccount::deposit
deposit(balance, amount) == IF amount > 0 THEN balance + amount ELSE balance

\* the transaction that selectOperation makes for a choice
transaction(choice) ==
    CASE choice = 1 -> "balance"
      [] choice = 2 -> "withdraw"
      [] choice = 3 -> "deposit"
      [] OTHER -> "none"

\* Transaction::execute on the account of the card
execute(b, card, kind, amount) ==
    IF card \notin DOMAIN b THEN b
    ELSE CASE kind = "withdraw" -> [b EXCEPT ![card] = withdraw(@, amount)]
           [] kind = "deposit" -> [b EXCEPT ![card] = deposit(@, amount)]
           [] OTHER -> b

\* ATM::selectOperation with the choice and the amount read from cin: the
\* ATM and the bank after it, what was executed, and whether choice 4 was
\* taken
selectOperation(a, b, choice, amount) ==
    IF a.currentState # "AUTHENTICATED"
    THEN [atm |-> a, bank |-> b, executed |-> "none", exit |-> FALSE]
    ELSE IF choice = 4
    THEN [atm |-> ejectCard(a), bank |-> b, executed |-> "none", exit |-> TRUE]
    ELSE IF transaction(choice) = "none"
    THEN [atm |-> a, bank |-> b, executed |-> "none", exit |-> FALSE]
    ELSE [atm |-> ejectCard(a),
          bank |-> execute(b, a.currentCard, transaction(choice), amount),
          executed |-> transaction(choice), exit |-> FALSE]

\* no call yet
NoOperation ==
    [op |-> "new", card |-> NoCard, pin |-> 0, executed |-> "none", exit |-> FALSE]

\* ---- class LRUCache ---------------------------------------------------------
\* A Node* is identified with the key of the node.  The list between the head
\* and tail nodes is the sequence of its nodes, head side first; mpp maps a
\* key to the val of its node.
LRUCache(capacity) ==
    [capacity |-> capacity, currentSize |-> 0, nodes |-> << >>, mpp |-> << >>,
     crashed |-> FALSE]

\* link the node right after head
addToFront(c, k) == [c EXCEPT !.nodes = <<k>> \o @]

\* unlink the node from its neighbours
unlinkNode(c, k) == [c EXCEPT !.nodes = Remove(@, k)]

\* erase the key of the node from mpp, unlink the node and delete it
deleteNode(c, k) == unlinkNode([c EXCEPT !.mpp = MapErase(@, k)], k)

tailLeft_headRight(c) == IF c.nodes = << >> THEN SentinelKey ELSE c.nodes[1]

\* tail->left: the last node of the list, or head when the list has no node
tailLeft(c) == IF c.nodes = << >> THEN SentinelKey ELSE c.nodes[Len(c.nodes)]

moveToFront_not(c, k) == c

\* unlinkNode(node); addToFront(node)
moveToFront(c, k) == addToFront(unlinkNode(c, k), k)

\* LRUCache::get: the object after the call and the value returned
LRUCache_get(c, key) ==
    IF contains(c.mpp, key)
    THEN [lru |-> moveToFront(c, key), ret |-> <<c.mpp[key]>>]
    ELSE [lru |-> c, ret |-> <<-1>>]

\* the eviction branch of put.  When tail->left is head, deleteNode erases
\* the key of head from mpp and unlinkNode then writes through head->left,
\* which is null
LRUCache_evict(c) ==
    LET deletionNode == tailLeft(c)
    IN IF c.nodes = << >>
       THEN [c EXCEPT !.mpp = MapErase(@, deletionNode), !.crashed = TRUE]
       ELSE [deleteNode([c EXCEPT !.mpp = MapErase(@, deletionNode)], deletionNode)
                EXCEPT !.currentSize = @ - 1]

\* LRUCache::put
LRUCache_put(c, key, value) ==
    IF contains(c.mpp, key)
    THEN moveToFront([c EXCEPT !.mpp[key] = value], key)
    ELSE LET e == IF c.currentSize = c.capacity THEN LRUCache_evict(c) ELSE c
         IN IF e.crashed THEN e
            ELSE [addToFront(e, key) EXCEPT !.mpp = MapPut(@, key, value),
                                            !.currentSize = @ + 1]

\* no call yet
NoCall ==
    [op |-> "new", key |-> 0, hit |-> FALSE, full |-> FALSE, ret |-> << >>,
     victim |-> << >>, before |-> {}, used |-> << >>]

\* no node counted, no key evicted, the callers idle and the mutex free
Aside ==
    /\ allocated = 0
    /\ veterans = [keys |-> {}, back |-> FALSE]
    /\ callers = [c \in Callers |-> Frame]
    /\ mem = Mem(maxSize)
    /\ mutex = Free
    /\ calls = [c \in Callers |-> 0]
    /\ overlapped = FALSE
    /\ lru = LRUCache(maxSize)
    /\ lruLog = NoCall
    /\ elevator = Elevator
    /\ trips = [added |-> 0, served |-> {}]
    /\ atm = ATM
    /\ bank = [c \in Registered |-> 1]
    /\ atmLog = NoOperation

Init ==
    /\ \E capacity \in Capacities : LFUCache(capacity)
    /\ ret = << >>
    /\ last = [op |-> "new", key |-> 0, val |-> 0, hit |-> FALSE, full |-> FALSE,
               minf |-> 0, evicted |-> {}, repeat |-> FALSE]
    /\ recency = << >>
    /\ lastPut = << >>
    /\ accesses = << >>
    /\ ref = NewRef(maxSize)
    /\ Aside

GetCall(key) ==
    /\ ~crashed
    /\ Promotable(key)
    /\ get(key)
    /\ last' = [op |-> "get", key |-> key, val |-> 0, hit |-> contains(nodeMap, key),
                full |-> curSize = maxSize, minf |-> minf, evicted |-> DOMAIN nodeMap \ DOMAIN nodeMap',
                repeat |-> last.op = "get" /\ last.key = key]
    /\ recency' = Touch(recency, key, DOMAIN nodeMap')
    /\ lastPut' = lastPut
    /\ accesses' = Count(accesses, key, DOMAIN nodeMap')
    /\ ref' = RefGet(ref, key)

PutCall(key, value) ==
    /\ ~crashed
    /\ Promotable(key)
    /\ put(key, value)
    /\ ret' = << >>
    /\ last' = [op |-> "put", key |-> key, val |-> value, hit |-> contains(nodeMap, key),
                full |-> curSize = maxSize, minf |-> minf, evicted |-> DOMAIN nodeMap \ DOMAIN nodeMap',
                repeat |-> last.op = "put" /\ last.key = key /\ last.val = value]
    /\ recency' = Touch(recency, key, DOMAIN nodeMap')
    /\ lastPut' = [k \in (DOMAIN lastPut \ (DOMAIN nodeMap \ DOMAIN nodeMap')) \cup {key} |->
                     IF k = key THEN value ELSE lastPut[k]]
    /\ accesses' = Count(accesses, key, DOMAIN nodeMap')
    /\ ref' = RefPut(ref, key, value)

\* a call of a single client, from its start to its return
Get(key) == GetCall(key) /\ UNCHANGED aside

Put(key, value) == PutCall(key, value) /\ UNCHANGED aside

Next ==
    \/ \E key \in Keys : Get(key)
    \/ \E key \in Keys, value \in Values : Put(key, value)

Spec == Init /\ [][Next]_vars

\* the constructor takes an int: the capacities of Spec and a negative one
AnyCapacities == Capacities \cup {-1}

InitAnyCapacity ==
    /\ \E capacity \in AnyCapacities : LFUCache(capacity)
    /\ ret = << >>
    /\ last = [op |-> "new", key |-> 0, val |-> 0, hit |-> FALSE, full |-> FALSE,
               minf |-> 0, evicted |-> {}, repeat |-> FALSE]
    /\ recency = << >>
    /\ lastPut = << >>
    /\ accesses = << >>
    /\ ref = NewRef(maxSize)
    /\ Aside

SpecAnyCapacity == InitAnyCapacity /\ [][Next]_vars

\* put reaches "new Node(key, value)" when the capacity is not 0, the key is
\* not stored and the eviction branch has not failed
allocates(key) ==
    /\ ~zeroCapacity(maxSize)
    /\ ~contains(nodeMap, key)
    /\ ~(isFull(curSize, maxSize) /\ evictCrashes(listMap, minf))

\* a client whose heap is watched: allocated counts the Node objects that put
\* has constructed; the program has no delete expression
GetHeap(key) ==
    /\ GetCall(key)
    /\ UNCHANGED aside

PutHeap(key, value) ==
    /\ allocates(key) => allocated < MaxAlloc
    /\ PutCall(key, value)
    /\ allocated' = IF allocates(key) THEN allocated + 1 ELSE allocated
    /\ UNCHANGED <<veterans, concurrent, companions>>

NextHeap ==
    \/ \E key \in Keys : GetHeap(key)
    \/ \E key \in Keys, value \in Values : PutHeap(key, value)

SpecHeap == Init /\ [][NextHeap]_vars

\* a client whose evicted keys are remembered: the keys that left the cache
\* with more than one access and were not put since
Veterans(r, r2, key) ==
    LET gone == {i \in 1..Len(r.entries) :
                    /\ r.entries[i].cnt > 1
                    /\ \A j \in 1..Len(r2.entries) : r2.entries[j].key # r.entries[i].key}
    IN (veterans.keys \ {key}) \cup {r.entries[i].key : i \in gone}

GetRemembered(key) ==
    /\ GetCall(key)
    /\ veterans' = [keys |-> veterans.keys, back |-> FALSE]
    /\ UNCHANGED <<allocated, concurrent, companions>>

PutRemembered(key, value) ==
    /\ PutCall(key, value)
    /\ veterans' = [keys |-> Veterans(ref, ref', key), back |-> key \in veterans.keys]
    /\ UNCHANGED <<allocated, concurrent, companions>>

NextRemembered ==
    \/ \E key \in Keys : GetRemembered(key)
    \/ \E key \in Keys, value \in Values : PutRemembered(key, value)

SpecRemembered == Init /\ [][NextRemembered]_vars

\* a client of a cache of capacity 3 with four keys: a list can hold three
\* nodes, and an eviction leaves two entries behind
RoomyCapacity == 3
RoomyKeys == {1, 2, 3, 4}
RoomyValues == {7}

InitRoomy ==
    /\ LFUCache(RoomyCapacity)
    /\ ret = << >>
    /\ last = [op |-> "new", key |-> 0, val |-> 0, hit |-> FALSE, full |-> FALSE,
               minf |-> 0, evicted |-> {}, repeat |-> FALSE]
    /\ recency = << >>
    /\ lastPut = << >>
    /\ accesses = << >>
    /\ ref = NewRef(maxSize)
    /\ Aside

NextRoomy ==
    \/ \E key \in RoomyKeys : Get(key)
    \/ \E key \in RoomyKeys, value \in RoomyValues : Put(key, value)

SpecRoomy == InitRoomy /\ [][NextRoomy]_vars

\* a client that also uses the key of the list sentinels
SentinelKeys == {SentinelKey} \cup (1..(MaxKey - 1))

NextSentinelKey ==
    \/ \E key \in SentinelKeys : Get(key)
    \/ \E key \in SentinelKeys, value \in Values : Put(key, value)

SpecSentinelKey == Init /\ [][NextSentinelKey]_vars

\* ---- concurrent callers -----------------------------------------------------
\* what the statements of concurrent callers leave alone
single == <<maxSize, curSize, minf, nodeMap, listMap, crashed, ret, last, recency,
            lastPut, accesses, ref, allocated, veterans, companions>>

Calls == calls[1] + calls[2]

\* a caller executes the statement its call is at
Statement(c) ==
    /\ InCall(callers[c])
    /\ ~mem.crashed
    /\ LET r == exec(callers[c], mem)
       IN /\ callers' = [callers EXCEPT ![c] = [r.f EXCEPT !.steps = @ + 1]]
          /\ mem' = r.m

\* a call starts whenever its caller is idle
StartCall(c, op, key, value) ==
    /\ callers[c].pc = "idle"
    /\ ~mem.crashed
    /\ callers' = [callers EXCEPT ![c] = Begin(op, key, value)]
    /\ calls' = [calls EXCEPT ![c] = @ + 1]
    /\ overlapped' = (overlapped \/ \E d \in Callers \ {c} : InCall(callers[d]))
    /\ UNCHANGED <<mem, mutex>>
    /\ UNCHANGED single

\* callers that take no lock
CallRacing(c, op, key, value) ==
    /\ Calls < MaxRacingCalls
    /\ StartCall(c, op, key, value)

StepRacing(c) ==
    /\ Statement(c)
    /\ UNCHANGED <<mutex, calls, overlapped>>
    /\ UNCHANGED single

ReturnRacing(c) ==
    /\ callers[c].pc = "done"
    /\ callers' = [callers EXCEPT ![c] = Frame]
    /\ UNCHANGED <<mem, mutex, calls, overlapped>>
    /\ UNCHANGED single

NextRacing ==
    \/ \E c \in Callers, key \in RacingKeys : CallRacing(c, "get", key, 0)
    \/ \E c \in Callers, key \in RacingKeys, value \in RacingValues :
            CallRacing(c, "put", key, value)
    \/ \E c \in Callers : StepRacing(c)
    \/ \E c \in Callers : ReturnRacing(c)

SpecRacing == Init /\ [][NextRacing]_vars

\* one caller, that makes its calls one after the other and runs as long as
\* it has a statement to execute
CallAlone(op, key, value) ==
    /\ Calls < MaxCalls
    /\ StartCall(1, op, key, value)

NextAlone ==
    \/ \E key \in LockedKeys : CallAlone("get", key, 0)
    \/ \E key \in LockedKeys, value \in LockedValues : CallAlone("put", key, value)
    \/ StepRacing(1)
    \/ ReturnRacing(1)

SpecAlone == Init /\ [][NextAlone]_vars /\ WF_vars(StepRacing(1))

\* the statements of the longest path through put: an insertion that evicts,
\* or an update that makes the list of the next count
StepLimit == 27

\* callers that hold the mutex of the cache from before the call to after its
\* return.  The call takes effect as a whole on maxSize .. listMap when the
\* mutex is taken; the statements then run on mem.
Acquire(c, op, key, value) ==
    /\ mutex = Free
    /\ callers[c].pc = "idle"
    /\ ~mem.crashed
    /\ Calls < MaxCalls
    /\ IF op = "get" THEN GetCall(key) ELSE PutCall(key, value)
    /\ callers' = [callers EXCEPT ![c] = [Begin(op, key, value) EXCEPT !.expect = ret']]
    /\ calls' = [calls EXCEPT ![c] = @ + 1]
    /\ mutex' = c
    /\ UNCHANGED <<mem, overlapped, allocated, veterans, companions>>

StepLocked(c) ==
    /\ mutex = c
    /\ Statement(c)
    /\ UNCHANGED <<mutex, calls, overlapped>>
    /\ UNCHANGED single

Release(c) ==
    /\ mutex = c
    /\ callers[c].pc = "done"
    /\ callers' = [callers EXCEPT ![c] = Frame]
    /\ mutex' = Free
    /\ UNCHANGED <<mem, calls, overlapped>>
    /\ UNCHANGED single

NextLocked ==
    \/ \E c \in Callers, key \in LockedKeys : Acquire(c, "get", key, 0)
    \/ \E c \in Callers, key \in LockedKeys, value \in LockedValues :
            Acquire(c, "put", key, value)
    \/ \E c \in Callers : StepLocked(c)
    \/ \E c \in Callers : Release(c)

SpecLocked == Init /\ [][NextLocked]_vars

\* ---- the heap seen as maps and sequences ------------------------------------
RECURSIVE Walk(_, _, _, _)
\* the nodes from n along next up to the node stop, at most fuel of them
Walk(m, n, stop, fuel) ==
    IF n = stop \/ n = NULL \/ fuel = 0 THEN << >>
    ELSE <<n>> \o Walk(m, m.nodes[n].next, stop, fuel - 1)

\* the nodes between the sentinels of list l, head side first
Linked(m, l) ==
    Walk(m, m.nodes[m.lists[l].head].next, m.lists[l].tail, Len(m.nodes))

\* no null pointer in nodeMap or listMap
NoNull(m) ==
    /\ \A k \in DOMAIN m.nodeMap : m.nodeMap[k] # NULL
    /\ \A c \in DOMAIN m.listMap : m.listMap[c] # NULL

\* nodeMap with each Node* replaced by the key, val and count it points to
NodesOf(m) ==
    [k \in DOMAIN m.nodeMap |->
        LET n == m.nodes[m.nodeMap[k]]
        IN [key |-> n.key, val |-> n.val, count |-> n.count]]

\* listMap with each List* replaced by the keys of its nodes and its size
ListsOf(m) ==
    [c \in DOMAIN m.listMap |->
        LET at == Linked(m, m.listMap[c])
        IN [nodes |-> [i \in 1..Len(at) |-> m.nodes[at[i]].key],
            size |-> m.lists[m.listMap[c]].size]]

\* 0 <= curSize <= maxSize, and as many keys in nodeMap
CapacityBoundIn(m) ==
    /\ 0 <= m.curSize /\ m.curSize <= m.maxSize
    /\ Cardinality(DOMAIN m.nodeMap) = m.curSize

\* minf is the least count of a stored node
MinFrequencyIn(m) ==
    DOMAIN m.nodeMap # {} =>
        /\ \E k \in DOMAIN m.nodeMap : m.nodes[m.nodeMap[k]].count = m.minf
        /\ \A k \in DOMAIN m.nodeMap : m.nodes[m.nodeMap[k]].count >= m.minf

\* how often node n is linked in the lists of listMap
LinkCount(m, n) ==
    Cardinality({<<c, i>> \in (DOMAIN m.listMap) \X (1..Len(m.nodes)) :
                    /\ i <= Len(Linked(m, m.listMap[c]))
                    /\ Linked(m, m.listMap[c])[i] = n})

\* every stored node is linked once, in the list of its count
OneBucketIn(m) ==
    \A k \in DOMAIN m.nodeMap :
        LET n == m.nodeMap[k]
        IN /\ LinkCount(m, n) = 1
           /\ contains(m.listMap, m.nodes[n].count)
           /\ n \in SeqToSet(Linked(m, m.listMap[m.nodes[n].count]))

Quiescent == \A c \in Callers : callers[c].pc = "idle"

\* ---- a client of the LRUCache ------------------------------------------------
\* used: the stored keys in the order of their last get hit or put, the
\* latest first, kept apart from the list of the cache
LRUGet(key) ==
    /\ ~lru.crashed
    /\ LET r == LRUCache_get(lru, key)
       IN /\ lru' = r.lru
          /\ lruLog' = [op |-> "get", key |-> key, hit |-> contains(lru.mpp, key),
                        full |-> lru.currentSize = lru.capacity, ret |-> r.ret,
                        victim |-> << >>, before |-> DOMAIN lru.mpp,
                        used |-> Touch(lruLog.used, key, DOMAIN r.lru.mpp)]
    /\ UNCHANGED <<cache, ret, last, recency, lastPut, accesses, ref>>
    /\ UNCHANGED <<allocated, veterans, concurrent, elevator, trips, atm, bank, atmLog>>

LRUPut(key, value) ==
    /\ ~lru.crashed
    /\ LET c == LRUCache_put(lru, key, value)
       IN /\ lru' = c
          /\ lruLog' = [op |-> "put", key |-> key, hit |-> contains(lru.mpp, key),
                        full |-> lru.currentSize = lru.capacity, ret |-> << >>,
                        victim |-> IF ~contains(lru.mpp, key) /\ lru.currentSize = lru.capacity
                                   THEN <<tailLeft(lru)>> ELSE << >>,
                        before |-> DOMAIN lru.mpp,
                        used |-> Touch(lruLog.used, key, DOMAIN c.mpp)]
    /\ UNCHANGED <<cache, ret, last, recency, lastPut, accesses, ref>>
    /\ UNCHANGED <<allocated, veterans, concurrent, elevator, trips, atm, bank, atmLog>>

NextLRU ==
    \/ \E key \in Keys : LRUGet(key)
    \/ \E key \in Keys, value \in Values : LRUPut(key, value)

SpecLRU == Init /\ [][NextLRU]_vars

\* ---- the elevator and its passengers -----------------------------------------
\* what the elevator leaves alone
caches == <<cache, ret, last, recency, lastPut, accesses, ref, allocated, veterans,
            concurrent, lru, lruLog>>

Move ==
    /\ elevator' = move(elevator)
    /\ trips' = [trips EXCEPT !.served = @ \cup (Stops(elevator) \ Stops(elevator'))]
    /\ UNCHANGED caches
    /\ UNCHANGED <<atm, bank, atmLog>>

AddStop(floor) ==
    /\ trips.added < MaxStops
    /\ elevator' = addStop(elevator, floor)
    /\ trips' = [trips EXCEPT !.added = @ + 1]
    /\ UNCHANGED caches
    /\ UNCHANGED <<atm, bank, atmLog>>

NextElevator ==
    \/ Move
    \/ \E floor \in Floors : AddStop(floor)

\* time steps go on: move is called again and again
SpecElevator == Init /\ [][NextElevator]_vars /\ WF_vars(Move)

\* ---- the ATM and its users ----------------------------------------------------
Choices == 0..4
Amounts == 0..2

\* what the ATM leaves alone
beside == <<caches, elevator, trips>>

InsertCard(card) ==
    /\ atm' = insertCard(atm, card)
    /\ atmLog' = [op |-> "insertCard", card |-> card, pin |-> 0,
                  executed |-> "none", exit |-> FALSE]
    /\ UNCHANGED <<bank, beside>>

EnterPin(pin) ==
    /\ atm' = enterPin(atm, pin)
    /\ atmLog' = [op |-> "enterPin", card |-> atm.currentCard, pin |-> pin,
                  executed |-> "none", exit |-> FALSE]
    /\ UNCHANGED <<bank, beside>>

SelectOperation(choice, amount) ==
    /\ atm.currentState = "AUTHENTICATED" /\ transaction(choice) = "deposit"
          => bank[atm.currentCard] + amount <= MaxBalance
    /\ LET r == selectOperation(atm, bank, choice, amount)
       IN /\ atm' = r.atm
          /\ bank' = r.bank
          /\ atmLog' = [op |-> "selectOperation", card |-> atm.currentCard, pin |-> 0,
                        executed |-> r.executed, exit |-> r.exit]
    /\ UNCHANGED beside

EjectCard ==
    /\ atm' = ejectCard(atm)
    /\ atmLog' = [op |-> "ejectCard", card |-> atm.currentCard, pin |-> 0,
                  executed |-> "none", exit |-> FALSE]
    /\ UNCHANGED <<bank, beside>>

NextATM ==
    \/ \E card \in Cards \cup {NoCard} : InsertCard(card)
    \/ \E pin \in Pins : EnterPin(pin)
    \/ \E choice \in Choices, amount \in Amounts : SelectOperation(choice, amount)
    \/ EjectCard

SpecATM == Init /\ [][NextATM]_vars

\* ---- the shape of the states ------------------------------------------------
StoredKeys == DOMAIN nodeMap

TypeOK ==
    /\ maxSize \in Capacities
    /\ curSize \in Int
    /\ minf \in 0..MaxFreq
    /\ StoredKeys \subseteq Keys
    /\ \A k \in StoredKeys : nodeMap[k].key = k /\ nodeMap[k].count \in 1..MaxFreq
    /\ DOMAIN listMap \subseteq 1..MaxFreq
    /\ crashed \in BOOLEAN

\* the stored entries of least count
MinCount(nm) == {k \in DOMAIN nm : \A j \in DOMAIN nm : nm[k].count <= nm[j].count}

\* the keys a step removes from nodeMap
Evicted == StoredKeys \ StoredKeys'

\* ---- claims -----------------------------------------------------------------

\* C1: for a cache constructed with a capacity >= 0, after every get and put
\* 0 <= curSize <= maxSize.
C1_CapacityBound == maxSize >= 0 => (0 <= curSize /\ curSize <= maxSize)

\* a put has evicted on a cache that is filled to its capacity
C1_Witness ==
    /\ maxSize = 2 /\ curSize = maxSize
    /\ last.op = "put" /\ last.full /\ last.evicted # {}

\* C2: whenever a put evicts, the count of the evicted entry is at most the
\* count of every entry stored at that moment.
C2_FrequencyPriority ==
    [][(last'.op = "put" /\ Evicted # {}) =>
          \A v \in Evicted : \A k \in StoredKeys : nodeMap[v].count <= nodeMap[k].count]_vars

\* capacity 2, put(1); put(2); get(1); get(1); put(3) has evicted key 2
C2_Witness ==
    /\ maxSize = 2 /\ StoredKeys = {1, 3}
    /\ last.op = "put" /\ last.key = 3 /\ last.evicted = {2}
    /\ nodeMap[1].count = 3 /\ nodeMap[3].count = 1
    /\ recency = <<3, 1>>

\* C3: whenever a put evicts, the evicted entry is, among the stored entries
\* of least count, the one whose last access is the oldest.
C3_RecencyTieBreak ==
    [][(last'.op = "put" /\ Evicted # {}) =>
          \A v \in Evicted :
              /\ v \in MinCount(nodeMap)
              /\ \A k \in MinCount(nodeMap) : IndexOf(recency, k) <= IndexOf(recency, v)]_vars

\* capacity 2, put(1); put(2); get(1); put(3) has evicted key 2, 1 and 3 stay
C3_Witness ==
    /\ maxSize = 2 /\ StoredKeys = {1, 3}
    /\ last.op = "put" /\ last.key = 3 /\ last.evicted = {2}
    /\ nodeMap[1].count = 2 /\ nodeMap[3].count = 1

\* C4: while the cache is not empty, minf is the least count of a stored
\* entry: the list of minf holds an entry and no entry has a smaller count.
C4_MinFrequency ==
    StoredKeys # {} =>
        /\ contains(listMap, minf)
        /\ listMap[minf].nodes # << >>
        /\ \A k \in StoredKeys : minf <= nodeMap[k].count
        /\ \E k \in StoredKeys : minf = nodeMap[k].count

\* a get has promoted the only entry of the list of minf
C4_Witness ==
    /\ last.op = "get" /\ last.hit
    /\ Cardinality(StoredKeys) = 2
    /\ minf = 3

\* C5 as stated: a get of a key that was put and not evicted since returns
\* the value of the latest put of that key, whatever the capacity.
C5_RoundTripAnyCapacity ==
    (last.op = "get" /\ last.key \in DOMAIN lastPut) => ret = <<lastPut[last.key]>>

\* C5, amended: on a cache of capacity >= 1, a get of a key that was put and
\* not evicted since returns the value of the latest put of that key.
C5_RoundTrip ==
    (maxSize >= 1 /\ last.op = "get" /\ last.key \in DOMAIN lastPut) =>
        ret = <<lastPut[last.key]>>

\* a get returns 7 for an entry of count 4: puts and gets came in between
C5_Witness ==
    /\ maxSize >= 1 /\ last.op = "get" /\ last.key \in DOMAIN lastPut
    /\ ret = <<7>> /\ nodeMap[last.key].count = 4
    /\ Cardinality(StoredKeys) = 2

\* C6: a put of a stored key replaces its value, adds exactly 1 to its count
\* and leaves curSize and the stored keys as they are.
C6_PutUpdate ==
    [][(last'.op = "put" /\ last'.key \in StoredKeys) =>
          /\ nodeMap'[last'.key].val = last'.val
          /\ nodeMap'[last'.key].count = nodeMap[last'.key].count + 1
          /\ curSize' = curSize
          /\ StoredKeys' = StoredKeys]_vars

\* a put has updated an entry of a full cache
C6_Witness ==
    /\ last.op = "put" /\ last.hit /\ last.full
    /\ maxSize = 2 /\ curSize = 2 /\ last.evicted = {}
    /\ nodeMap[last.key].val = last.val

\* C7: with capacity 0 no call changes the cache, nothing is stored and
\* every get returns the miss result.
C7_ZeroCapacity ==
    [][maxSize = 0 =>
          /\ UNCHANGED cache
          /\ nodeMap' = << >> /\ listMap' = << >> /\ curSize' = 0
          /\ last'.op = "get" => ret' = <<-1>>]_vars

\* a put was made on a cache of capacity 0
C7_Witness == maxSize = 0 /\ last.op = "put" /\ StoredKeys = {} /\ ~crashed

\* C8: a get of a key that is not stored returns the miss result and leaves
\* the cache as it is.
C8_GetMiss ==
    [][(last'.op = "get" /\ last'.key \notin StoredKeys) =>
          (ret' = <<-1>> /\ UNCHANGED cache)]_vars

\* a get has missed on a cache that stores other keys
C8_Witness == last.op = "get" /\ ~last.hit /\ curSize = 2 /\ ret = <<-1>>

\* C9: a get changes neither curSize nor the stored keys.
C9_GetKeepsKeys ==
    [][last'.op = "get" => (curSize' = curSize /\ StoredKeys' = StoredKeys)]_vars

\* a get has hit on a full cache
C9_Witness ==
    /\ last.op = "get" /\ last.hit /\ last.full
    /\ maxSize = 2 /\ Cardinality(StoredKeys) = 2

\* C10: a put evicts at most one entry, and one exactly when its key is not
\* stored and curSize = maxSize > 0; the eviction branch then leaves the
\* victim out of nodeMap and of its list and curSize one smaller, before the
\* new entry is there.
C10_OneEviction ==
    [][last'.op = "put" =>
          /\ Cardinality(Evicted) <= 1
          /\ Evicted # {} <=>
                 (last'.key \notin StoredKeys /\ curSize = maxSize /\ maxSize > 0)
          /\ \A v \in Evicted :
                 LET e == evict(nodeMap, listMap, curSize, minf)
                 IN /\ ~contains(e.nodeMap, v)
                    /\ \A f \in DOMAIN e.listMap : v \notin SeqToSet(e.listMap[f].nodes)
                    /\ e.curSize = curSize - 1
                    /\ ~contains(e.nodeMap, last'.key)
                    /\ \A f \in DOMAIN listMap' : v \notin SeqToSet(listMap'[f].nodes)
                    /\ curSize' = e.curSize + 1]_vars

\* a put has evicted the last entry of a list
C10_Witness ==
    /\ last.op = "put" /\ ~last.hit /\ last.full /\ Cardinality(last.evicted) = 1
    /\ \A v \in last.evicted : ~contains(nodeMap, v)
    /\ \E f \in DOMAIN listMap : f > 1 /\ listMap[f].nodes = << >>

\* C11: a get of a stored key returns the stored value, adds exactly 1 to the
\* count of the entry and makes it the head-side node of the list of the new
\* count, which listMap holds afterwards; the value stays.
C11_GetHitPromotes ==
    [][(last'.op = "get" /\ last'.key \in StoredKeys) =>
          LET k == last'.key
              c == nodeMap[k].count
          IN /\ ret' = <<nodeMap[k].val>>
             /\ nodeMap'[k].val = nodeMap[k].val
             /\ nodeMap'[k].count = c + 1
             /\ contains(listMap', c + 1)
             /\ listMap'[c + 1].nodes # << >>
             /\ Head(listMap'[c + 1].nodes) = k
             /\ k \notin SeqToSet(listMap'[c].nodes)
             /\ (contains(listMap, c + 1) =>
                    listMap'[c + 1].nodes = <<k>> \o listMap[c + 1].nodes)]_vars

\* a get has put its entry in front of another entry of the same count
C11_Witness ==
    /\ last.op = "get" /\ last.hit /\ contains(nodeMap, last.key)
    /\ LET c == nodeMap[last.key].count
       IN /\ c = 3
          /\ contains(listMap, c)
          /\ Len(listMap[c].nodes) = 2
          /\ Head(listMap[c].nodes) = last.key

\* C12: on a cache of capacity >= 1 a put of a key that is not stored leaves
\* a node of count 1 with the key and the value in nodeMap, at the head side
\* of the list of count 1, and minf = 1.
C12_PutInsert ==
    [][(last'.op = "put" /\ last'.key \notin StoredKeys /\ maxSize >= 1) =>
          LET k == last'.key
          IN /\ contains(nodeMap', k)
             /\ nodeMap'[k] = [key |-> k, val |-> last'.val, count |-> 1]
             /\ contains(listMap', 1)
             /\ listMap'[1].nodes # << >>
             /\ Head(listMap'[1].nodes) = k
             /\ listMap'[1].nodes =
                    <<k>> \o SelectSeq(IF contains(listMap, 1) THEN listMap[1].nodes ELSE << >>,
                                      LAMBDA x : x \notin Evicted)
             /\ minf' = 1]_vars

\* a put has inserted a key while minf was 3
C12_Witness ==
    /\ last.op = "put" /\ ~last.hit /\ last.minf = 3
    /\ contains(nodeMap, last.key) /\ nodeMap[last.key].count = 1
    /\ minf = 1 /\ listMap[1].nodes = <<last.key>>

\* C13: the count of a stored entry is 1 when the entry is created, grows by
\* exactly 1 with each get hit and put-update of its key, is left alone by
\* the calls on other keys and never decreases; it is the number of accesses
\* of the key since the entry was created.
C13_FrequencyCountsAccesses ==
    /\ [](\A k \in StoredKeys : k \in DOMAIN accesses /\ nodeMap[k].count = accesses[k])
    /\ [][/\ \A k \in StoredKeys' \ StoredKeys : nodeMap'[k].count = 1
          /\ \A k \in StoredKeys' \cap StoredKeys :
                 /\ nodeMap'[k].count >= nodeMap[k].count
                 /\ nodeMap'[k].count =
                        IF last'.op \in {"get", "put"} /\ k = last'.key
                        THEN nodeMap[k].count + 1
                        ELSE nodeMap[k].count]_vars

\* an entry accessed four times stands next to one accessed once
C13_Witness ==
    /\ last.op = "put" /\ last.hit /\ contains(nodeMap, last.key)
    /\ nodeMap[last.key].count = 4 /\ accesses[last.key] = 4
    /\ \E k \in StoredKeys : nodeMap[k].count = 1 /\ accesses[k] = 1

\* the least element of a set of numbers
Least(S) == CHOOSE x \in S : \A y \in S : x <= y

\* C14: while the cache is not empty, minf is the least count that listMap
\* has a list for.
C14_MinfIsLeastBucket ==
    StoredKeys # {} => (DOMAIN listMap # {} /\ minf = Least(DOMAIN listMap))

\* C15: every list that listMap holds has a node, so listMap has as many
\* lists as the stored entries have distinct counts.
C15_NoEmptyBucket ==
    /\ \A f \in DOMAIN listMap : listMap[f].nodes # << >> /\ listMap[f].size > 0
    /\ Cardinality(DOMAIN listMap) = Cardinality({nodeMap[k].count : k \in StoredKeys})

\* the number of places of a sequence that hold k
Occurrences(s, k) == Cardinality({i \in 1..Len(s) : s[i] = k})

\* C16: every stored entry is a node of exactly one list, once, and that list
\* is the one listMap holds for the count of the entry.
C16_OneBucketPerEntry ==
    \A k \in StoredKeys :
        /\ contains(listMap, nodeMap[k].count)
        /\ \A f \in DOMAIN listMap :
               Occurrences(listMap[f].nodes, k) = IF f = nodeMap[k].count THEN 1 ELSE 0

\* a promotion has moved one of two entries out of the list they shared
C16_Witness ==
    /\ last.op \in {"get", "put"} /\ last.hit
    /\ Cardinality(StoredKeys) = 2
    /\ \E j, k \in StoredKeys : nodeMap[j].count = 1 /\ nodeMap[k].count = 2
    /\ contains(listMap, 2) /\ listMap[2].nodes = <<last.key>>
    /\ Len(listMap[1].nodes) = 1

\* the sum of the size fields of the lists of lm for the counts in F
RECURSIVE SumSizes(_, _)
SumSizes(lm, F) ==
    IF F = {} THEN 0
    ELSE LET f == CHOOSE x \in F : TRUE
         IN lm[f].size + SumSizes(lm, F \ {f})

\* the keys of the nodes linked in the lists of lm
LinkedKeys(lm) == UNION {SeqToSet(lm[f].nodes) : f \in DOMAIN lm}

\* C17: nodeMap maps exactly the keys of the linked nodes, each to the node
\* that carries that key; the number of its mappings is curSize and is the
\* sum of the size fields of the lists; the node a put evicts is gone from it.
C17_KeyIndexConsistent ==
    /\ [](/\ StoredKeys = LinkedKeys(listMap)
          /\ \A k \in StoredKeys : nodeMap[k].key = k
          /\ Cardinality(StoredKeys) = curSize
          /\ curSize = SumSizes(listMap, DOMAIN listMap))
    /\ [][(/\ last'.op = "put" /\ last'.key \notin StoredKeys
           /\ curSize = maxSize /\ maxSize >= 1) =>
              /\ toBeDeleted(listMap[minf]) \in StoredKeys
              /\ toBeDeleted(listMap[minf]) \notin StoredKeys'
              /\ toBeDeleted(listMap[minf]) \notin LinkedKeys(listMap')]_vars

\* a put has evicted from a full cache whose entries sit in two lists
C17_Witness ==
    /\ last.op = "put" /\ last.evicted # {} /\ curSize = 2
    /\ Cardinality(StoredKeys) = 2
    /\ \E f \in DOMAIN listMap : f > 1 /\ listMap[f].size = 1
    /\ listMap[1].size = 1

\* C18: the result of a get that finds its key differs from the result of a
\* get that does not (which is -1).
C18_MissDistinguishable == (last.op = "get" /\ last.hit) => ret # <<-1>>

\* C19: a cache of negative capacity is rejected by the constructor: it takes
\* no get or put and stores nothing.
C19_NegativeCapacityRejected == maxSize < 0 => (last.op = "new" /\ StoredKeys = {})

\* a put that repeats the call before it
RepeatedPut ==
    /\ last.op = "put" /\ last'.op = "put"
    /\ last'.key = last.key /\ last'.val = last.val

RefKeys == {ref.entries[i].key : i \in 1..Len(ref.entries)}

\* C25: after every sequence of get and put on a capacity >= 0 the cache and
\* the reference cache, which evicts the entry least in (accesses, time of
\* last access), have returned the same result and hold the same keys.
C25_SameAsReference ==
    maxSize >= 0 =>
        /\ ret = ref.ret
        /\ StoredKeys = RefKeys
        /\ \A i \in 1..Len(ref.entries) :
               LET e == ref.entries[i]
               IN contains(nodeMap, e.key) =>
                      (nodeMap[e.key].val = e.val /\ nodeMap[e.key].count = e.cnt)

\* both have evicted the older of two entries of count 2 and kept a newer one
C25_Witness ==
    /\ last.op = "put" /\ last.evicted # {} /\ maxSize = 2
    /\ last.minf = 2
    /\ Len(ref.entries) = 2 /\ ref.entries[2].cnt = 2
    /\ StoredKeys = RefKeys

\* a call that finds its key
Promotion == last'.op \in {"get", "put"} /\ last'.key \in StoredKeys

\* C26: a get hit or put-update adds 1 to minf exactly when the entry had the
\* count minf and was the only node of its list, and leaves minf alone
\* otherwise.
C26_MinfOnPromotion ==
    [][Promotion =>
          LET c == nodeMap[last'.key].count
              alone == listMap[c].nodes = <<last'.key>>
          IN /\ minf' = IF c = minf /\ alone THEN minf + 1 ELSE minf
             /\ minf' >= minf]_vars

\* a promotion has raised minf, the cache holding a second entry
C26_Witness ==
    /\ last.op \in {"get", "put"} /\ last.hit
    /\ minf = last.minf + 1 /\ minf = 2
    /\ Cardinality(StoredKeys) = 2
    /\ \A k \in StoredKeys : nodeMap[k].count = 2

\* a put of a key that is not stored, on a cache filled to its capacity
EvictingPut ==
    /\ last'.op = "put" /\ last'.key \notin StoredKeys
    /\ maxSize >= 1 /\ curSize = maxSize

\* C27: for a capacity >= 1, whenever put evicts, listMap has the list of
\* minf and that list has a node; the node unlinked and erased from nodeMap
\* is a stored entry, not a sentinel, and the call does not fail.  A stored
\* key -1 leaves nodeMap only as that victim: least count, oldest access.
C27_VictimIsStoredEntry ==
    /\ [][EvictingPut =>
             /\ contains(listMap, minf)
             /\ listMap[minf].nodes # << >>
             /\ toBeDeleted(listMap[minf]) \in StoredKeys
             /\ Evicted = {toBeDeleted(listMap[minf])}
             /\ ~crashed']_vars
    /\ [][(SentinelKey \in Evicted) =>
             (/\ EvictingPut
              /\ SentinelKey \in MinCount(nodeMap)
              /\ \A k \in MinCount(nodeMap) :
                     IndexOf(recency, k) <= IndexOf(recency, SentinelKey))]_vars

\* the stored key -1 was evicted, an entry of higher count stays
C27_Witness ==
    /\ last.op = "put" /\ last.evicted = {SentinelKey} /\ maxSize = 2
    /\ \E k \in StoredKeys : nodeMap[k].count = 3
    /\ ~crashed

\* C28: for a capacity >= 1, right after put(k, v) the key k is stored with
\* the value v: the put has evicted neither the entry it inserted nor the
\* entry it updated.
C28_PutKeepsItsKey ==
    (last.op = "put" /\ maxSize >= 1) =>
        /\ contains(nodeMap, last.key)
        /\ nodeMap[last.key].val = last.val
        /\ nodeMap[last.key].key = last.key
        /\ last.key \notin last.evicted
        /\ last.key \in LinkedKeys(listMap)

\* a put into a cache of capacity 1 whose entry had count 2 keeps the new key
C28_Witness ==
    /\ last.op = "put" /\ ~last.hit /\ last.evicted # {} /\ maxSize = 1
    /\ last.minf = 2
    /\ StoredKeys = {last.key} /\ nodeMap[last.key].val = last.val

\* C29: for a capacity >= 1 no call makes curSize smaller: a put that evicts
\* also inserts, so a cache that holds an entry goes on holding one and a
\* cache filled to its capacity stays filled.
C29_SizeNeverDecreases ==
    [][maxSize >= 1 =>
          /\ curSize' >= curSize
          /\ (StoredKeys # {} => StoredKeys' # {} /\ curSize' > 0)
          /\ (curSize = maxSize => curSize' = maxSize)
          /\ (Evicted # {} => last'.key \in StoredKeys' \ StoredKeys)]_vars

\* a full cache of capacity 1 has evicted and is still full
C29_Witness ==
    /\ maxSize = 1 /\ curSize = 1
    /\ last.op = "put" /\ last.full /\ Cardinality(last.evicted) = 1
    /\ StoredKeys = {last.key}

\* C30: a key that was evicted with a count above 1 and is put again has an
\* entry of count 1, in the list of count 1, with minf = 1: it is among the
\* entries of least count.
C30_HistoryEndsAtEviction ==
    veterans.back =>
        /\ last.op = "put"
        /\ contains(nodeMap, last.key)
        /\ nodeMap[last.key].count = 1
        /\ accesses[last.key] = 1
        /\ contains(listMap, 1) /\ Head(listMap[1].nodes) = last.key
        /\ minf = 1
        /\ last.key \in MinCount(nodeMap)

\* key 1, evicted with a count above 1, is back beside an entry of count 3
C30_Witness ==
    /\ veterans.back /\ last.op = "put" /\ last.key = 1
    /\ contains(nodeMap, 1) /\ nodeMap[1].count = 1
    /\ \E k \in StoredKeys : nodeMap[k].count = 3

\* C23: after every get and put the Node objects constructed and not deleted
\* are as many as the entries of nodeMap, and for a capacity >= 0 no more than
\* maxSize.
C23_AllocatedAreStored ==
    /\ allocated = Cardinality(StoredKeys)
    /\ (maxSize >= 0 => allocated <= maxSize)

\* C21: when every get and put is made with the mutex held, the cache never
\* fails, every call returns what it returns when the calls are made one
\* after the other in the order in which the mutex was taken, and whenever
\* the mutex is free the object is in the state those calls leave, with
\* 0 <= curSize <= maxSize, minf the least count of a stored node, and every
\* stored node linked once, in the list of its count.
C21_LockedIsSequential ==
    /\ ~mem.crashed
    /\ \A c \in Callers : callers[c].pc = "done" => callers[c].ret = callers[c].expect
    /\ mutex = Free =>
          /\ NoNull(mem)
          /\ mem.maxSize = maxSize /\ mem.curSize = curSize /\ mem.minf = minf
          /\ NodesOf(mem) = nodeMap
          /\ ListsOf(mem) = listMap
          /\ CapacityBoundIn(mem)
          /\ MinFrequencyIn(mem)
          /\ OneBucketIn(mem)

\* both callers have made calls, the last of them a put that evicted
C21_Witness ==
    /\ mutex = Free /\ Quiescent
    /\ calls[1] >= 1 /\ calls[2] >= 1
    /\ last.op = "put" /\ last.evicted # {}
    /\ mem.curSize = maxSize /\ NodesOf(mem) = nodeMap

\* C24: a call has executed at most StepLimit statements, whatever the
\* capacity and the number of stored nodes and of lists, and every call that
\* was started reaches its return.
C24_BoundedSteps ==
    /\ [](\A c \in Callers :
            /\ callers[c].steps <= StepLimit
            /\ InCall(callers[c]) => callers[c].steps < StepLimit)
    /\ \A c \in Callers : InCall(callers[c]) ~> (callers[c].pc = "done")

\* a put that evicts from a cache of capacity 2 returns after StepLimit
\* statements
C24_Witness ==
    \E c \in Callers :
        /\ callers[c].pc = "done" /\ callers[c].op = "put"
        /\ callers[c].steps = StepLimit
        /\ callers[c].toBeDeleted # NULL
        /\ mem.maxSize = 2 /\ mem.curSize = 2

\* C22: when get and put are called without a lock, the object is left
\* outside the capacity bound, the least-count property of minf or the
\* one-list-per-node property only by calls that have overlapped: calls made
\* one after the other leave all three in place, and two calls whose
\* statements interleave can leave curSize above maxSize.
C22_OnlyOverlapBreaks ==
    (Quiescent /\ ~overlapped) =>
        /\ ~mem.crashed
        /\ NoNull(mem)
        /\ CapacityBoundIn(mem)
        /\ MinFrequencyIn(mem)
        /\ OneBucketIn(mem)

\* two puts of different keys have both found curSize below maxSize and have
\* both inserted: both have returned and curSize is above maxSize
C22_Witness ==
    /\ Quiescent /\ overlapped /\ ~mem.crashed
    /\ calls[1] = 1 /\ calls[2] = 1
    /\ mem.maxSize >= 1
    /\ mem.curSize > mem.maxSize
    /\ Cardinality(DOMAIN mem.nodeMap) > mem.maxSize

\* the nodes of a list other than those of the keys ks, in their order
Others(list, ks) == SelectSeq(list.nodes, LAMBDA x : x \notin ks)

Oldest == lruLog.used[Len(lruLog.used)]

C33_EvictsStoredEntry ==
    /\ ~lru.crashed
    /\ lru.currentSize >= 0
    /\ (lruLog.victim # << >> =>
            /\ lruLog.victim[1] # SentinelKey
            /\ lruLog.victim[1] \in lruLog.before)

\* C34: every floor of upStops is >= currentFloor and every floor of
\* downStops is <= currentFloor; once addStop is no longer called, a floor
\* that is a stop is reached by the elevator and is erased from the stops,
\* and the elevator comes to rest with direction IDLE and no stops.
C34_StopsAreServed ==
    /\ [](/\ \A f \in elevator.upStops : f >= elevator.currentFloor
          /\ \A f \in elevator.downStops : f <= elevator.currentFloor)
    /\ \A f \in Floors :
          /\ (f \in Stops(elevator)) ~> (elevator.currentFloor = f)
          /\ (f \in Stops(elevator)) ~> (f \notin Stops(elevator) /\ f \in trips.served)
    /\ <>[](elevator.direction = "IDLE" /\ Stops(elevator) = {})

\* the elevator has gone up to floor 2, has come down to a stop added on the
\* way, and rests at floor 0
C34_Witness ==
    /\ elevator.direction = "IDLE" /\ Stops(elevator) = {}
    /\ elevator.currentFloor = 0
    /\ trips.served = {0, 2}

\* the session is over: state IDLE, no card
NoSession == [currentState |-> "IDLE", currentCard |-> NoCard]

\* C35: a transaction is executed only by a selectOperation in state
\* AUTHENTICATED; the ATM enters AUTHENTICATED only by an enterPin in state
\* CARD_INSERTED whose PIN the bank accepts for the card inserted, and
\* CARD_INSERTED only by an insertCard in state IDLE; an insertCard outside
\* IDLE and an enterPin with a PIN the bank does not accept leave
\* currentCard and currentState as they are; an executed transaction and the
\* exit choice leave the ATM in IDLE with no card.
C35_SessionProtocol ==
    /\ [](atm.currentState = "AUTHENTICATED" => atm.currentCard \in Registered)
    /\ [](atm.currentState = "IDLE" /\ atmLog.op # "insertCard" => atm.currentCard = NoCard)
    /\ [][/\ (atmLog'.executed # "none" =>
                 atmLog'.op = "selectOperation" /\ atm.currentState = "AUTHENTICATED")
          /\ (atm'.currentState = "AUTHENTICATED" /\ atm.currentState # "AUTHENTICATED" =>
                 /\ atmLog'.op = "enterPin"
                 /\ atm.currentState = "CARD_INSERTED"
                 /\ authenticateUser(atm.currentCard, atmLog'.pin)
                 /\ atm'.currentCard = atm.currentCard)
          /\ (atm'.currentState = "CARD_INSERTED" /\ atm.currentState # "CARD_INSERTED" =>
                 /\ atmLog'.op = "insertCard"
                 /\ atm.currentState = "IDLE"
                 /\ atm'.currentCard = atmLog'.card)
          /\ (atmLog'.op = "insertCard" /\ atm.currentState # "IDLE" => atm' = atm)
          /\ (atmLog'.op = "enterPin" /\ ~authenticateUser(atm.currentCard, atmLog'.pin) =>
                 atm' = atm)
          /\ (atmLog'.op = "selectOperation" /\ atm.currentState # "AUTHENTICATED" =>
                 atm' = atm /\ bank' = bank)
          /\ (atmLog'.executed # "none" \/ atmLog'.exit => atm' = NoSession)]_vars

\* card 2 was inserted, its PIN accepted, and a withdrawal has taken its
\* balance to 0 and ended the session
C35_Witness ==
    /\ atmLog.op = "selectOperation" /\ atmLog.executed = "withdraw" /\ atmLog.card = 2
    /\ bank[2] = 0
    /\ atm = NoSession

====
